---- MODULE Spec2Model ----
(***************************************************************************)
(* Model of main.py: a Flask trigger route, and a batch job that reads     *)
(* video/playlist identifiers from the warehouse, resolves their names     *)
(* through the catalog API in chunks of 50, joins them, and replaces the   *)
(* destination table.                                                      *)
(*                                                                         *)
(* Identifiers are opaque tokens, modelled as positive integers; None is   *)
(* NULL.  Names (titles, sentinels) are sequences of characters so that    *)
(* str.lower() is computed character by character.                         *)
(***************************************************************************)
EXTENDS Integers, Sequences, FiniteSets

\* ---------------------------------------------------------------- bounds
\* longest identifier list handed to a resolver called on its own
MaxIds == 101
\* most rows of the source playlist table in one batch run
MaxRows == 2
\* longest pair sequence handed to the join stage on its own
MaxPairs == 2
\* most HTTP POSTs served in one behaviour
MaxPosts == 1

\* ------------------------------------------------------- program constants
\* range(0, len(ids), 50) and ids[i: i + 50]
ChunkSize == 50
\* Python's None
NULL == -1
\* the separator of ",".join(chunk_ids), a token no identifier equals
Comma == 0

\* the identifiers the warehouse tables of a batch run can hold
VideoIds == {1}
PlaylistIds == {1, 2}

EXCLUDED_LABEL == <<"p", "o", "p", "u", "l", "a", "r", " ", "u", "p", "l", "o", "a", "d", "s">>
PLAYLIST_NOT_FOUND == <<"P", "l", "a", "y", "l", "i", "s", "t", " ", "n", "a", "m", "e", " ", "n", "o", "t", " ", "f", "o", "u", "n", "d">>
VIDEO_NOT_FOUND == <<"V", "i", "d", "e", "o", " ", "n", "a", "m", "e", " ", "n", "o", "t", " ", "f", "o", "u", "n", "d">>
ACK == "Data is updated!"

\* titles the catalog can hold
TitlePopular == <<"P", "o", "p", "u", "l", "a", "r", " ", "u", "p", "l", "o", "a", "d", "s">>
TitlePopularUploads == <<"P", "o", "p", "u", "l", "a", "r", " ", "U", "p", "l", "o", "a", "d", "s">>
TitlePopularSpace == <<"p", "o", "p", "u", "l", "a", "r", " ", "u", "p", "l", "o", "a", "d", "s", " ">>
TitleMix == <<"M", "i", "x">>
TitleSongA == <<"S", "o", "n", "g", " ", "A">>

UpperChars == <<"A", "B", "C", "D", "E", "F", "G", "H", "I", "J", "K", "L", "M", "N", "O", "P", "Q", "R", "S", "T", "U", "V", "W", "X", "Y", "Z">>
LowerChars == <<"a", "b", "c", "d", "e", "f", "g", "h", "i", "j", "k", "l", "m", "n", "o", "p", "q", "r", "s", "t", "u", "v", "w", "x", "y", "z">>

\* ---------------------------------------------------------------- helpers
Min(a, b) == IF a <= b THEN a ELSE b

\* str.lower(), one character
LowerChar(c) ==
    IF \E k \in DOMAIN UpperChars : UpperChars[k] = c
    THEN LowerChars[CHOOSE k \in DOMAIN UpperChars : UpperChars[k] = c]
    ELSE c

\* str.lower(): every character lower-cased, nothing trimmed
Lower(s) == [k \in DOMAIN s |-> LowerChar(s[k])]

\* a dict: a function on the set of its keys
EmptyMap == [k \in {} |-> <<>>]

\* d[k] = v
DictSet(d, k, v) == [x \in DOMAIN d \cup {k} |-> IF x = k THEN v ELSE d[x]]

\* d.get(k, default)
DictGet(d, k, default) == IF k \in DOMAIN d THEN d[k] ELSE default

Range(s) == {s[k] : k \in DOMAIN s}

\* every order a result set can be iterated in (SQL without ORDER BY, set())
RECURSIVE Orderings(_)
Orderings(S) ==
    IF S = {} THEN {<<>>}
    ELSE UNION {{<<x>> \o s : s \in Orderings(S \ {x})} : x \in S}

\* the rows of s at the positions K, in order
RECURSIVE Pick(_, _, _)
Pick(s, K, k) ==
    IF k > Len(s) THEN <<>>
    ELSE (IF k \in K THEN <<s[k]>> ELSE <<>>) \o Pick(s, K, k + 1)

\* ------------------------------------------------------------- the state
VARIABLES
    posts,            \* POSTs answered by the Flask route
    response,         \* body of the last HTTP response, "" before any
    pc,               \* position of the batch job main()
    youtube,          \* main's API service handle: "service", or "none" for None
    queries,          \* outcome of each warehouse query issued, in order
    playlistTable,    \* warehouse: rows <<video_id, playlist_id>> of the playlist table
    channelTable,     \* warehouse: video_id column of the channel table
    catalog,          \* catalog API: [video, playlist], each id -> title
    dest,             \* destination table: [exists, schema, rows]
    dest0,            \* the destination table before the run
    video_ids_from_playlists,
    all_video_ids,
    playlist_ids,
    vid_playlist_ids,
    video_names,
    playlist_names,
    combined_data,
    res,              \* frame of the running / last resolver call
    requests,         \* lookup requests issued by that call, in issue order
    steps             \* publisher steps performed, in order, with their outcome

vars == <<posts, response, pc, youtube, queries, playlistTable, channelTable, catalog,
          dest, dest0, video_ids_from_playlists, all_video_ids, playlist_ids,
          vid_playlist_ids, video_names, playlist_names, combined_data, res,
          requests, steps>>

httpVars == <<posts, response>>
worldVars == <<playlistTable, channelTable, catalog, dest0>>
localVars == <<video_ids_from_playlists, all_video_ids, playlist_ids,
               vid_playlist_ids, video_names, playlist_names, combined_data>>

\* ------------------------------------------------------- identifier fetcher
\* get_video_ids_from_bigquery / get_playlist_ids_from_bigquery: the non-None
\* values of the column, in result order
GetIds(rows) == SelectSeq(rows, LAMBDA x : x # NULL)

\* get_vid_playlist_ids_from_bigquery: the (video_id, playlist_id) of the rows
\* whose video_id is not None, in result order
GetVidPlaylistIds(rows) == SelectSeq(rows, LAMBDA r : r[1] # NULL)

\* SELECT video_id ... GROUP BY 1
QueryVideoIdsOfPlaylists(T) == {r[1] : r \in T}

\* SELECT playlist_id ... GROUP BY 1
QueryPlaylistIds(T) == {r[2] : r \in T}

\* SELECT video_id, playlist_id ... WHERE video_id IS NOT NULL GROUP BY 1, 2
QueryPairs(T) == {r \in T : r[1] # NULL}

\* a query error caught and passed over
OnQueryErrorSwallowed(next) == next

\* client.query(...).result() is not guarded: an error leaves main
OnQueryError(next) == "raised_query"

\* ----------------------------------------------------------- name resolver
\* ",".join(chunk_ids)
JoinIds(chunk) ==
    [k \in 1..(2 * Len(chunk) - 1) |-> IF k % 2 = 1 THEN chunk[(k + 1) \div 2] ELSE Comma]

\* the catalog API's reading of the id parameter
SplitIds(param) == SelectSeq(param, LAMBDA t : t # Comma)

\* a slice one short, ids[i: i + 49], under the same stride
ChunkOfShort(ids, i) == SubSeq(ids, i + 1, Min(i + ChunkSize - 1, Len(ids)))

\* ids[i: i + 50]
ChunkOf(ids, i) == SubSeq(ids, i + 1, Min(i + ChunkSize, Len(ids)))

\* the next value of range(0, len(ids), 50)
NextIndex(i) == i + ChunkSize

\* response["items"] of the catalog for a request: one item per identifier the
\* catalog knows (a deleted or unknown identifier has no item)
RECURSIVE ItemsFor(_, _)
ItemsFor(cat, idseq) ==
    IF idseq = <<>> THEN <<>>
    ELSE (IF Head(idseq) \in DOMAIN cat
          THEN <<[id |-> Head(idseq), title |-> cat[Head(idseq)]]>>
          ELSE <<>>) \o ItemsFor(cat, Tail(idseq))

\* for item in response["items"]: names[item["id"]] = item["snippet"]["title"]
RECURSIVE AddItems(_, _)
AddItems(names, items) ==
    IF items = <<>> THEN names
    ELSE AddItems(DictSet(names, Head(items).id, Head(items).title), Tail(items))

\* an except clause that returns what was gathered so far
OnLookupErrorPartial(names) == names

\* the except clauses: return {}
OnLookupError(names) == EmptyMap

NoFrame ==
    [kind |-> "none", ids |-> <<>>, i |-> 0, names |-> EmptyMap,
     status |-> "none", result |-> EmptyMap, caller |-> "none"]

\* entry of get_video_names / get_playlist_names
Frame(kind, ids, caller) ==
    [kind |-> kind, ids |-> ids, i |-> 0, names |-> EmptyMap,
     status |-> "running", result |-> EmptyMap, caller |-> caller]

\* if not ids: return names
ResolverEmptyInput ==
    /\ res.status = "running"
    /\ res.ids = <<>>
    /\ res' = [res EXCEPT !.status = "empty_input", !.result = res.names]
    /\ UNCHANGED <<httpVars, worldVars, localVars, pc, youtube, queries, dest, requests, steps>>

\* one pass of the loop body whose response holds "items"
ChunkItems ==
    /\ res.status = "running"
    /\ res.ids # <<>>
    /\ res.i < Len(res.ids)
    /\ LET request == [kind |-> res.kind, part |-> "snippet",
                       id |-> JoinIds(ChunkOf(res.ids, res.i))]
           items == ItemsFor(catalog[res.kind], SplitIds(request.id))
       IN /\ requests' = Append(requests, request)
          /\ res' = [res EXCEPT !.names = AddItems(res.names, items),
                                !.i = NextIndex(res.i)]
    /\ UNCHANGED <<httpVars, worldVars, localVars, pc, youtube, queries, dest, steps>>

\* one pass of the loop body whose response holds no "items": logged, skipped
ChunkNoItems ==
    /\ res.status = "running"
    /\ res.ids # <<>>
    /\ res.i < Len(res.ids)
    /\ LET request == [kind |-> res.kind, part |-> "snippet",
                       id |-> JoinIds(ChunkOf(res.ids, res.i))]
       IN requests' = Append(requests, request)
    /\ res' = [res EXCEPT !.i = NextIndex(res.i)]
    /\ UNCHANGED <<httpVars, worldVars, localVars, pc, youtube, queries, dest, steps>>

\* request.execute() (or the reading of the response) raises
ChunkRaises ==
    /\ res.status = "running"
    /\ res.ids # <<>>
    /\ res.i < Len(res.ids)
    /\ LET request == [kind |-> res.kind, part |-> "snippet",
                       id |-> JoinIds(ChunkOf(res.ids, res.i))]
       IN requests' = Append(requests, request)
    /\ res' = [res EXCEPT !.status = "error", !.result = OnLookupError(res.names)]
    /\ UNCHANGED <<httpVars, worldVars, localVars, pc, youtube, queries, dest, steps>>

\* the range is exhausted: return names
LoopExit ==
    /\ res.status = "running"
    /\ res.ids # <<>>
    /\ res.i >= Len(res.ids)
    /\ res' = [res EXCEPT !.status = "ok", !.result = res.names]
    /\ UNCHANGED <<httpVars, worldVars, localVars, pc, youtube, queries, dest, requests, steps>>

Resolver == ResolverEmptyInput \/ ChunkItems \/ ChunkNoItems \/ ChunkRaises \/ LoopExit

Returned == res.status \in {"empty_input", "ok", "error"}

\* ------------------------------------------------------------ join / filter
\* a comparison without lower()
IsExcludedCaseSensitive(playlist_name) == playlist_name = EXCLUDED_LABEL

\* playlist_name.lower() == "popular uploads"
IsExcluded(playlist_name) == Lower(playlist_name) = EXCLUDED_LABEL

\* the loop over vid_playlist_ids that builds combined_data
RECURSIVE CombineData(_, _, _)
CombineData(pairs, vnames, pnames) ==
    IF pairs = <<>> THEN <<>>
    ELSE LET video_id == Head(pairs)[1]
             playlist_id == Head(pairs)[2]
             playlist_name == DictGet(pnames, playlist_id, PLAYLIST_NOT_FOUND)
             video_name == DictGet(vnames, video_id, VIDEO_NOT_FOUND)
         IN (IF IsExcluded(playlist_name)
             THEN <<>>
             ELSE <<[video_id |-> video_id, video_name |-> video_name,
                     playlist_id |-> playlist_id, playlist_name |-> playlist_name]>>)
            \o CombineData(Tail(pairs), vnames, pnames)

\* ----------------------------------------------------------- table publisher
Schema ==
    <<[name |-> "video_id", type |-> "STRING", mode |-> "REQUIRED"],
      [name |-> "video_name", type |-> "STRING", mode |-> "NULLABLE"],
      [name |-> "playlist_id", type |-> "STRING", mode |-> "REQUIRED"],
      [name |-> "playlist_name", type |-> "STRING", mode |-> "NULLABLE"]>>

\* the schema of a table some other job left behind
LegacySchema == <<[name |-> "video_id", type |-> "STRING", mode |-> "NULLABLE"]>>

Absent == [exists |-> FALSE, schema |-> <<>>, rows |-> <<>>]

\* a row the schema accepts: every REQUIRED field is non-null
RowValid(row) ==
    \A k \in DOMAIN Schema : Schema[k].mode = "REQUIRED" => row[Schema[k].name] # NULL

\* client.delete_table(table, not_found_ok=True)
NotFoundOk == TRUE

\* delete_table without not_found_ok
DeleteOutcomesNotFoundRaises(d, not_found_ok) ==
    {"error"} \cup (IF d.exists THEN {"ok"} ELSE {"not_found"})

\* what delete_table can do on table d: an absent table is an error unless
\* not_found_ok; any call can fail otherwise (permissions, transport)
DeleteOutcomes(d, not_found_ok) ==
    {"error"} \cup (IF d.exists \/ not_found_ok THEN {"ok"} ELSE {"not_found"})

\* an except clause without its return
OnDeleteErrorFallsThrough == "create"

\* except around delete_table: print, return
OnDeleteError == "done"

\* except around create_table: print, return
OnCreateError == "done"

\* what insert_rows_json can do with data: no errors only when every row is
\* accepted; errors name at least one row, which is not stored; or it raises
InsertOutcomes(data) ==
    {"raised"}
    \cup (IF \A k \in DOMAIN data : RowValid(data[k]) THEN {"ok"} ELSE {})
    \cup (IF data # <<>> THEN {"errors"} ELSE {})

\* the positions of data a call with this outcome can have stored
StoredBy(out, data) ==
    CASE out = "ok" -> {DOMAIN data}
      [] out = "errors" ->
            {K \in SUBSET {k \in DOMAIN data : RowValid(data[k])} : K # DOMAIN data}
      [] OTHER -> {{}}

\* a bulk insert that loses the first row
RowsStoredSkipFirst(data, K) == Pick(data, K, 2)

\* the rows insert_rows_json(table, data) stores: those of data it accepted
RowsStored(data, K) == Pick(data, K, 1)

DeleteTable ==
    /\ pc = "delete"
    /\ \E out \in DeleteOutcomes(dest, NotFoundOk) :
          /\ steps' = Append(steps, [op |-> "delete", out |-> out])
          /\ dest' = IF out = "ok" THEN Absent ELSE dest
          /\ pc' = IF out = "ok" THEN "create" ELSE OnDeleteError
    /\ UNCHANGED <<httpVars, worldVars, localVars, youtube, queries, res, requests>>

CreateTable ==
    /\ pc = "create"
    /\ \E out \in {"ok", "error"} :
          /\ steps' = Append(steps, [op |-> "create", out |-> out])
          /\ dest' = IF out = "ok"
                     THEN [exists |-> TRUE, schema |-> Schema, rows |-> <<>>]
                     ELSE dest
          /\ pc' = IF out = "ok" THEN "insert" ELSE OnCreateError
    /\ UNCHANGED <<httpVars, worldVars, localVars, youtube, queries, res, requests>>

InsertRowsJson ==
    /\ pc = "insert"
    /\ \E out \in InsertOutcomes(combined_data) :
       \E K \in StoredBy(out, combined_data) :
          /\ steps' = Append(steps, [op |-> "insert", out |-> out])
          /\ dest' = [dest EXCEPT !.rows = dest.rows \o RowsStored(combined_data, K)]
          /\ pc' = IF out = "raised" THEN "raised_insert" ELSE "done"
    /\ UNCHANGED <<httpVars, worldVars, localVars, youtube, queries, res, requests>>

Publisher == DeleteTable \/ CreateTable \/ InsertRowsJson

\* ------------------------------------------------------------ the batch job
\* an invocation of the module's main() (the second definition of that name)
CallMain ==
    /\ pc = "idle"
    /\ pc' = "svc"
    /\ UNCHANGED <<httpVars, worldVars, localVars, youtube, queries, dest, res, requests, steps>>

\* if not youtube: print, return
OnServiceMissing == "aborted_init"

\* youtube = get_youtube_service(credentials_file): the service, or None
GetYoutubeService ==
    /\ pc = "svc"
    /\ \E ok \in BOOLEAN :
          /\ youtube' = IF ok THEN "service" ELSE "none"
          /\ pc' = IF ok THEN "q1" ELSE OnServiceMissing
    /\ UNCHANGED <<httpVars, worldVars, localVars, queries, dest, res, requests, steps>>

QueryVideoIdsFromPlaylists ==
    /\ pc = "q1"
    /\ \/ \E rows \in Orderings(QueryVideoIdsOfPlaylists(playlistTable)) :
             /\ video_ids_from_playlists' = GetIds(rows)
             /\ pc' = "q2"
             /\ queries' = Append(queries, "ok")
       \/ /\ pc' = OnQueryError("q2")
          /\ queries' = Append(queries, "raised")
          /\ UNCHANGED video_ids_from_playlists
    /\ UNCHANGED <<httpVars, worldVars, youtube, dest, res, requests, steps,
                   all_video_ids, playlist_ids, vid_playlist_ids, video_names,
                   playlist_names, combined_data>>

\* the second query, then list(set(video_ids_from_playlists + video_ids_from_channels))
QueryVideoIdsFromChannels ==
    /\ pc = "q2"
    /\ \/ \E rows \in Orderings(channelTable) :
          LET video_ids_from_channels == GetIds(rows)
          IN \E all \in Orderings(Range(video_ids_from_playlists \o video_ids_from_channels)) :
                /\ all_video_ids' = all
                /\ pc' = "q3"
                /\ queries' = Append(queries, "ok")
       \/ /\ pc' = OnQueryError("q3")
          /\ queries' = Append(queries, "raised")
          /\ UNCHANGED all_video_ids
    /\ UNCHANGED <<httpVars, worldVars, youtube, dest, res, requests, steps,
                   video_ids_from_playlists, playlist_ids, vid_playlist_ids,
                   video_names, playlist_names, combined_data>>

QueryPlaylists ==
    /\ pc = "q3"
    /\ \/ \E rows \in Orderings(QueryPlaylistIds(playlistTable)) :
             /\ playlist_ids' = GetIds(rows)
             /\ pc' = "q4"
             /\ queries' = Append(queries, "ok")
       \/ /\ pc' = OnQueryError("q4")
          /\ queries' = Append(queries, "raised")
          /\ UNCHANGED playlist_ids
    /\ UNCHANGED <<httpVars, worldVars, youtube, dest, res, requests, steps,
                   video_ids_from_playlists, all_video_ids, vid_playlist_ids,
                   video_names, playlist_names, combined_data>>

QueryVidPlaylists ==
    /\ pc = "q4"
    /\ \/ \E rows \in Orderings(QueryPairs(playlistTable)) :
             /\ vid_playlist_ids' = GetVidPlaylistIds(rows)
             /\ pc' = "vnames"
             /\ queries' = Append(queries, "ok")
       \/ /\ pc' = OnQueryError("vnames")
          /\ queries' = Append(queries, "raised")
          /\ UNCHANGED vid_playlist_ids
    /\ UNCHANGED <<httpVars, worldVars, youtube, dest, res, requests, steps,
                   video_ids_from_playlists, all_video_ids, playlist_ids,
                   video_names, playlist_names, combined_data>>

\* video_names = get_video_names(youtube, all_video_ids): the call
CallGetVideoNames ==
    /\ pc = "vnames"
    /\ res' = Frame("video", all_video_ids, "main")
    /\ requests' = <<>>
    /\ pc' = "in_vnames"
    /\ UNCHANGED <<httpVars, worldVars, localVars, youtube, queries, dest, steps>>

\* ... and the assignment of what it returns
ReturnVideoNames ==
    /\ pc = "in_vnames"
    /\ Returned
    /\ video_names' = res.result
    /\ pc' = "pnames"
    /\ UNCHANGED <<httpVars, worldVars, youtube, queries, dest, res, requests, steps,
                   video_ids_from_playlists, all_video_ids, playlist_ids,
                   vid_playlist_ids, playlist_names, combined_data>>

\* playlist_names = get_playlist_names(youtube, playlist_ids): the call
CallGetPlaylistNames ==
    /\ pc = "pnames"
    /\ res' = Frame("playlist", playlist_ids, "main")
    /\ requests' = <<>>
    /\ pc' = "in_pnames"
    /\ UNCHANGED <<httpVars, worldVars, localVars, youtube, queries, dest, steps>>

\* ... and the assignment of what it returns
ReturnPlaylistNames ==
    /\ pc = "in_pnames"
    /\ Returned
    /\ playlist_names' = res.result
    /\ pc' = "join"
    /\ UNCHANGED <<httpVars, worldVars, youtube, queries, dest, res, requests, steps,
                   video_ids_from_playlists, all_video_ids, playlist_ids,
                   vid_playlist_ids, video_names, combined_data>>

\* step 5 of main, up to the call of upload_data_to_bigquery
JoinFilter ==
    /\ pc = "join"
    /\ combined_data' = CombineData(vid_playlist_ids, video_names, playlist_names)
    /\ pc' = "delete"
    /\ UNCHANGED <<httpVars, worldVars, youtube, queries, dest, res, requests, steps,
                   video_ids_from_playlists, all_video_ids, playlist_ids,
                   vid_playlist_ids, video_names, playlist_names>>

BatchJob ==
    \/ CallMain \/ GetYoutubeService
    \/ QueryVideoIdsFromPlaylists \/ QueryVideoIdsFromChannels
    \/ QueryPlaylists \/ QueryVidPlaylists
    \/ CallGetVideoNames \/ ReturnVideoNames
    \/ CallGetPlaylistNames \/ ReturnPlaylistNames
    \/ JoinFilter

\* ---------------------------------------------------------------- trigger
\* the handler Flask registered for POST "/": the first definition of main
PostRoot ==
    /\ posts < MaxPosts
    /\ posts' = posts + 1
    /\ response' = ACK
    /\ UNCHANGED <<worldVars, localVars, pc, youtube, queries, dest, res, requests, steps>>

\* ------------------------------------------------------- the specifications
SourceRows == (VideoIds \cup {NULL}) \X (PlaylistIds \cup {NULL})

SourceTables == {T \in SUBSET SourceRows : Cardinality(T) <= MaxRows}

VideoCatalogs == UNION {[D -> {TitleSongA}] : D \in SUBSET VideoIds}

PlaylistCatalogs == UNION {[D -> {TitlePopular, TitleMix}] : D \in SUBSET PlaylistIds}

StaleRow ==
    [video_id |-> 1, video_name |-> TitleSongA,
     playlist_id |-> 2, playlist_name |-> TitleMix]

InitialTables ==
    {Absent,
     [exists |-> TRUE, schema |-> LegacySchema, rows |-> <<>>],
     [exists |-> TRUE, schema |-> Schema, rows |-> <<StaleRow>>]}

InitLocals ==
    /\ video_ids_from_playlists = <<>>
    /\ all_video_ids = <<>>
    /\ playlist_ids = <<>>
    /\ vid_playlist_ids = <<>>
    /\ video_names = EmptyMap
    /\ playlist_names = EmptyMap
    /\ combined_data = <<>>

Init ==
    /\ posts = 0
    /\ response = ""
    /\ pc = "idle"
    /\ youtube = "none"
    /\ queries = <<>>
    /\ playlistTable \in SourceTables
    /\ channelTable \in SUBSET (VideoIds \cup {NULL})
    /\ \E v \in VideoCatalogs, p \in PlaylistCatalogs :
          catalog = [video |-> v, playlist |-> p]
    /\ dest \in InitialTables
    /\ dest0 = dest
    /\ InitLocals
    /\ res = NoFrame
    /\ requests = <<>>
    /\ steps = <<>>

\* a run of the batch job
Next == BatchJob \/ Resolver \/ Publisher

Spec == Init /\ [][Next]_vars

\* the served application: the trigger route beside the batch job
NextTrigger == PostRoot \/ Next

SpecTrigger == Init /\ [][NextTrigger]_vars

\* a resolver called on its own with an identifier list of 0..MaxIds identifiers
IdList(n, rev) == [k \in 1..n |-> IF rev THEN n + 1 - k ELSE k]

\* a catalog that does not know every m-th identifier
KnownCatalog(n, m) ==
    [k \in {j \in 1..n : j % m # 0} |-> IF k % 2 = 0 THEN TitleSongA ELSE TitleMix]

InitResolver ==
    /\ posts = 0
    /\ response = ""
    /\ pc = "idle"
    /\ youtube = "service"
    /\ queries = <<>>
    /\ playlistTable = {}
    /\ channelTable = {}
    /\ dest = Absent
    /\ dest0 = dest
    /\ InitLocals
    /\ requests = <<>>
    /\ steps = <<>>
    /\ \E kind \in {"video", "playlist"}, n \in 0..MaxIds, rev \in BOOLEAN, m \in {2, 3} :
          /\ res = Frame(kind, IdList(n, rev), "direct")
          /\ catalog = [video |-> KnownCatalog(n, m), playlist |-> KnownCatalog(n, m)]

NextResolver == Resolver

SpecResolver == InitResolver /\ [][NextResolver]_vars

\* the join stage on its own, on every pair sequence and pair of mappings
JoinVideoIds == {1, 2}

JoinPairs == JoinVideoIds \X (PlaylistIds \cup {NULL})

JoinTitles == {TitlePopular, TitlePopularUploads, TitlePopularSpace, TitleMix}

InitJoin ==
    /\ posts = 0
    /\ response = ""
    /\ pc = "join"
    /\ youtube = "service"
    /\ queries = <<"ok", "ok", "ok", "ok">>
    /\ playlistTable = {}
    /\ channelTable = {}
    /\ catalog = [video |-> EmptyMap, playlist |-> EmptyMap]
    /\ dest = Absent
    /\ dest0 = dest
    /\ video_ids_from_playlists = <<>>
    /\ all_video_ids = <<>>
    /\ playlist_ids = <<>>
    /\ vid_playlist_ids \in UNION {[1..n -> JoinPairs] : n \in 0..MaxPairs}
    /\ video_names \in UNION {[D -> {TitleSongA}] : D \in SUBSET JoinVideoIds}
    /\ playlist_names \in UNION {[D -> JoinTitles] : D \in SUBSET PlaylistIds}
    /\ combined_data = <<>>
    /\ res = NoFrame
    /\ requests = <<>>
    /\ steps = <<>>

NextJoin == JoinFilter

SpecJoin == InitJoin /\ [][NextJoin]_vars

\* ------------------------------------------------------------- properties
\* the identifiers the requests carry, concatenated in issue order
RECURSIVE RequestedIds(_)
RequestedIds(reqs) ==
    IF reqs = <<>> THEN <<>>
    ELSE SplitIds(Head(reqs).id) \o RequestedIds(Tail(reqs))

\* C1: a resolver call on N identifiers in which no lookup raises issues
\* ceil(N/50) requests (none, and an empty mapping, when N = 0), each carrying
\* 1 to 50 identifiers, and the requests' identifiers concatenated in issue
\* order are the input list.
C1_ChunkedRequests ==
    res.status \in {"ok", "empty_input"} =>
        LET n == Len(res.ids)
        IN /\ Len(requests) = (n + 49) \div 50
           /\ \A k \in DOMAIN requests :
                 /\ Len(SplitIds(requests[k].id)) >= 1
                 /\ Len(SplitIds(requests[k].id)) <= 50
           /\ RequestedIds(requests) = res.ids
           /\ n = 0 => (requests = <<>> /\ DOMAIN res.result = {})

\* a call on 101 identifiers has returned after three requests
C1_Witness ==
    /\ res.status = "ok"
    /\ Len(res.ids) = 101
    /\ Len(requests) = 3
    /\ Len(SplitIds(requests[3].id)) = 1

\* C2: when the lookup of a chunk raises, the call returns the empty mapping
\* whatever earlier chunks added, and the failing request is the last one of
\* the call.
C2_ErrorDiscardsAll ==
    res.status = "error" =>
        /\ DOMAIN res.result = {}
        /\ Len(requests) = (res.i \div 50) + 1
        /\ res.i < Len(res.ids)

\* the second chunk of three raised after the first one added entries
C2_Witness ==
    /\ res.status = "error"
    /\ Len(requests) = 2
    /\ DOMAIN res.names # {}
    /\ Len(res.ids) > 100
    /\ DOMAIN res.result = {}

\* the excluded label in capitals
EXCLUDED_LABEL_CAPS == <<"P", "O", "P", "U", "L", "A", "R", " ", "U", "P", "L", "O", "A", "D", "S">>

\* name is the excluded label up to the case of its letters, nothing trimmed
MatchesExcludedLabel(name) ==
    /\ Len(name) = Len(EXCLUDED_LABEL)
    /\ \A k \in DOMAIN name : name[k] \in {EXCLUDED_LABEL[k], EXCLUDED_LABEL_CAPS[k]}

\* the row the reference join gives a pair
ReferenceRow(pair) ==
    [video_id |-> pair[1],
     video_name |-> IF pair[1] \in DOMAIN video_names
                    THEN video_names[pair[1]] ELSE VIDEO_NOT_FOUND,
     playlist_id |-> pair[2],
     playlist_name |-> IF pair[2] \in DOMAIN playlist_names
                       THEN playlist_names[pair[2]] ELSE PLAYLIST_NOT_FOUND]

\* C3: the join's output is the reference join: one row per pair, in pair
\* order, with the sentinels for absent names, less the rows whose playlist
\* name is "popular uploads" in any case (untrimmed); a repeated pair gives
\* repeated rows.
C3_JoinIsReferenceJoin ==
    pc = "delete" =>
        combined_data =
            SelectSeq([k \in DOMAIN vid_playlist_ids |-> ReferenceRow(vid_playlist_ids[k])],
                      LAMBDA r : ~MatchesExcludedLabel(r.playlist_name))

\* the example: pairs (v1,p1), (v2,p2), v1 named "Song A", p1 named
\* "Popular Uploads", p2 named "Mix": the one row of v2 and p2
C3_Witness ==
    /\ pc = "delete"
    /\ vid_playlist_ids = <<(<<1, 1>>), (<<2, 2>>)>>
    /\ DOMAIN video_names = {1}
    /\ DOMAIN playlist_names = {1, 2}
    /\ playlist_names[1] = TitlePopularUploads
    /\ playlist_names[2] = TitleMix
    /\ combined_data = <<[video_id |-> 2, video_name |-> VIDEO_NOT_FOUND,
                          playlist_id |-> 2, playlist_name |-> TitleMix]>>

Failed(op) == \E k \in DOMAIN steps : steps[k].op = op /\ steps[k].out # "ok"

Performed(op) == \E k \in DOMAIN steps : steps[k].op = op

AllStepsOk == Len(steps) = 3 /\ \A k \in DOMAIN steps : steps[k].out = "ok"

\* C4: a failed delete is followed by no create and no insert; a failed
\* create by no insert; an insert that reports errors lets the publish return
\* normally, the table existing with a part (possibly none) of the rows.
C4_PublishAbortsOnFailure ==
    /\ Failed("delete") => (~Performed("create") /\ ~Performed("insert") /\ pc = "done")
    /\ Failed("create") => (~Performed("insert") /\ pc = "done")
    /\ (\E k \in DOMAIN steps : steps[k] = [op |-> "insert", out |-> "errors"]) =>
          /\ pc = "done"
          /\ dest.exists
          /\ Range(dest.rows) \subseteq Range(combined_data)

\* an insert of two rows reported errors and stored one of them
C4_Witness ==
    /\ Len(steps) = 3
    /\ steps[3] = [op |-> "insert", out |-> "errors"]
    /\ Len(combined_data) = 2
    /\ Len(dest.rows) = 1
    /\ pc = "done"

\* C5: the publisher's steps are delete, create, insert in that order, each
\* at most once and only after the previous one succeeded; an absent table
\* never fails the delete as not found; after three successful steps the
\* table exists with the fixed schema, also for an empty row set.
C5_PublishStepOrder ==
    /\ Len(steps) <= 3
    /\ \A k \in DOMAIN steps :
          /\ steps[k].op = <<"delete", "create", "insert">>[k]
          /\ k < Len(steps) => steps[k].out = "ok"
          /\ steps[k].out # "not_found"
    /\ (pc = "create") => ~dest.exists
    /\ AllStepsOk => (dest.exists /\ dest.schema = Schema)

\* an empty row set published onto an absent table
C5_Witness ==
    /\ ~dest0.exists
    /\ combined_data = <<>>
    /\ AllStepsOk
    /\ dest = [exists |-> TRUE, schema |-> Schema, rows |-> <<>>]

\* the rows a reader of the destination table gets (none from an absent table)
RowsReadBack == IF dest.exists THEN Range(dest.rows) ELSE {}

C7_PostStartsRun ==
    [][posts' = posts + 1 => (pc = "idle" /\ pc' = "svc" /\ response' = ACK)]_vars

\* C8: after a failed service initialization no query, no lookup and no
\* publisher step is performed; after a failed query no lookup and no
\* publisher step is performed; the destination table is as before the run.
C8_AbortLeavesNoTrace ==
    /\ (pc \notin {"idle", "svc"} /\ youtube = "none") =>
          (queries = <<>> /\ res = NoFrame /\ requests = <<>> /\ steps = <<>> /\ dest = dest0)
    /\ (\E k \in DOMAIN queries : queries[k] = "raised") =>
          (res = NoFrame /\ requests = <<>> /\ steps = <<>> /\ dest = dest0)

\* the fourth query raised in a run over an existing table
C8_Witness ==
    /\ pc = "raised_query"
    /\ Len(queries) = 4
    /\ queries[4] = "raised"
    /\ dest0.exists
    /\ dest = dest0

\* C9 as claimed: no row handed to the publisher belongs to a playlist the
\* catalog names "popular uploads" in any case.
C9_NoPopularUploadsPublished ==
    \A k \in DOMAIN combined_data :
        LET p == combined_data[k].playlist_id
        IN p \in DOMAIN catalog.playlist => Lower(catalog.playlist[p]) # EXCLUDED_LABEL

\* C10 as claimed: every row handed to the publisher has a non-null video_id
\* and a non-null playlist_id.
C10_RequiredFieldsNonNull ==
    \A k \in DOMAIN combined_data :
        combined_data[k].video_id # NULL /\ combined_data[k].playlist_id # NULL

====
